---- MODULE Spec2Model ----
(***************************************************************************)
(* Model of components/espcoredump/espcoredump.py:                         *)
(*   - the memory-region reconciliation loop of info_corefile              *)
(*     (lines 294-346),                                                    *)
(*   - the note-section scan of info_corefile (lines 226-234) and the      *)
(*     decoding of the register snapshot (lines 248-256),                  *)
(*   - get_chip_version / get_target (lines 126-163).                      *)
(*                                                                         *)
(* Python's "for x in list" is modelled as it executes: the iterator keeps *)
(* an index into the live list, so list.remove() inside the loop shifts    *)
(* the following elements one place down while the index still advances.   *)
(***************************************************************************)
EXTENDS Integers, Sequences, FiniteSets

\* ------------------------------------------------------------------ bounds
\* Addresses are 0 .. MaxAddr; every range lies inside [0, MaxAddr).
MaxAddr == 3
\* Largest number of executable sections.
MaxSecs == 2
\* Largest number of core-dump load segments.
MaxSegs == 3
\* Largest number of note sections (flattened over the note segments).
MaxNotes == 2

\* ------------------------------------------------------- program constants
\* ElfSegment.PF_X, the "executable" bit of a segment's flags (line 342).
PF_X == 1
\* EspCoreDumpVersion.ESP32 / ESP32S2 / ESP32S3 / ESP32C3 (lines 142-151).
ESP32 == 0
ESP32S2 == 2
ESP32S3 == 9
ESP32C3 == 5
\* chip_version is None (line 135, line 132).
NoVersion == -1

VARIABLES
    sections,       \* exe_elf.sections: <<[name, addr, len, attr]>>
    load_segments,  \* core_elf.load_segments, aliased by core_segs (the pool)
    in_segments,    \* value of core_elf.load_segments when the run began
    merged_segs,    \* merged_segs: <<[name, addr, len, attr, merged]>>
    merged_with,    \* for each entry of merged_segs, the segment it consumed
    core_only,      \* the ".coredump.*" lines printed by the last loop
    sec_i,          \* position of the outer "for sec in exe_elf.sections"
    seg_i,          \* position of the iterator of "for seg in core_segs"
    merged,         \* the local flag "merged"
    pc,             \* where the reconciliation is
    note_secs,      \* the note sections of core_elf.note_segments, in loop order
    note_i,         \* position of the loops of lines 228-229
    extra_note,     \* the local extra_note (NoNote for None)
    task_info,      \* the local task_info
    extra_info,     \* the local extra_info: [set, regs]
    marker,         \* the local marker (line 251)
    pcn,            \* where the note extraction is
    chip,           \* args.chip
    chip_version,   \* the argument of get_target
    detect,         \* what esptool.ESPLoader.detect_chip would answer
    detect_called,  \* whether detect_chip has been called
    target,         \* what get_target returned
    pct             \* where get_target is

reconVars == <<sections, load_segments, in_segments, merged_segs, merged_with,
               core_only, sec_i, seg_i, merged, pc>>

noteVars == <<note_secs, note_i, extra_note, task_info, extra_info, marker, pcn>>

targetVars == <<chip, chip_version, detect, detect_called, target, pct>>

vars == <<reconVars, noteVars, targetVars>>

\* ------------------------------------------------------------ input spaces
SecNames == <<".text", ".data", ".bss", ".rodata", ".noinit">>
SecAttrs == <<"RX", "RW", "RW", "R", "RW">>

Ranges == {r \in [addr : 0 .. MaxAddr - 1, len : 1 .. MaxAddr] : r.addr + r.len <= MaxAddr}

End(r) == r.addr + r.len

\* The bytes [addr, addr + len) of a section, a segment or a region.
Bytes(r) == r.addr .. (r.addr + r.len - 1)

Disjoint(r, s) == Bytes(r) \cap Bytes(s) = {}

PairwiseDisjoint(q) ==
    \A i, j \in 1 .. Len(q) : i < j => Disjoint(q[i], q[j])

\* Every sequence of at most n pairwise disjoint elements of S, in every order.
RECURSIVE DisjointSeqs(_, _)
DisjointSeqs(S, n) ==
    IF n = 0 THEN {<<>>}
    ELSE LET P == DisjointSeqs(S, n - 1)
         IN P \cup {Append(pr[1], pr[2]) :
                      pr \in {x \in P \X S :
                                 /\ Len(x[1]) = n - 1
                                 /\ \A i \in 1 .. Len(x[1]) : Disjoint(x[1][i], x[2])}}

SectionLists ==
    {[i \in 1 .. Len(q) |->
         [name |-> SecNames[i], addr |-> q[i].addr, len |-> q[i].len, attr |-> SecAttrs[i]]] :
       q \in DisjointSeqs(Ranges, MaxSecs)}

\* Segment flags: PF_R|PF_W (a data segment) and PF_R|PF_X (a code segment).
SegFlags == {6, 5}

SegmentRecs ==
    {r \in [addr : 0 .. MaxAddr - 1, len : 1 .. MaxAddr, flags : SegFlags] :
       End(r) <= MaxAddr}

SegmentLists == DisjointSeqs(SegmentRecs, MaxSegs)

NoSeg == [addr |-> 0, len |-> 0, flags |-> 0]

\* ------------------------------------------------- reconciliation helpers
\* line 299: the section starts inside (or at either end of) the segment.
SecStartsInSeg(sec, seg) == seg.addr <= sec.addr /\ sec.addr <= seg.addr + seg.len

\* line 316: the segment starts inside (or at either end of) the section.
SegStartsInSec(sec, seg) == sec.addr <= seg.addr /\ seg.addr <= sec.addr + sec.len

\* line 302
AddrA(sec, seg) == seg.addr

\* lines 303-312
LenA_NoOffset(sec, seg) ==
    IF seg.addr + seg.len <= sec.addr + sec.len THEN sec.len ELSE seg.len

LenA(sec, seg) ==
    IF seg.addr + seg.len <= sec.addr + sec.len
    THEN sec.len + (sec.addr - seg.addr)
    ELSE seg.len

\* line 319
AddrB_SegStart(sec, seg) == seg.addr

AddrB(sec, seg) == sec.addr

\* lines 320-329
LenB(sec, seg) ==
    IF (seg.addr + seg.len) >= (sec.addr + sec.len)
    THEN sec.len + (seg.addr + seg.len) - (sec.addr + sec.len)
    ELSE sec.len

\* list.remove(x): drops the first element equal to x.
RemoveKeep(q, x) == q

RemoveHead(q, x) == Tail(q)

RECURSIVE RemoveFirst(_, _)
RemoveFirst(q, x) ==
    IF q = <<>> THEN <<>>
    ELSE IF Head(q) = x THEN Tail(q)
    ELSE <<Head(q)>> \o RemoveFirst(Tail(q), x)

\* lines 342-345
CoreSegName_Swapped(cs) ==
    IF (cs.flags \div PF_X) % 2 = 1 THEN "tasks.data" ELSE "rom.text"

CoreSegName(cs) ==
    IF (cs.flags \div PF_X) % 2 = 1 THEN "rom.text" ELSE "tasks.data"

\* line 346: one printed line per segment left in the pool.
CoreLine(cs) == [name |-> CoreSegName(cs), addr |-> cs.addr, len |-> cs.len, flags |-> cs.flags]

\* ------------------------------------------------------ note extraction
\* note_sec.type values; only their being distinct matters.
NoteTypes == {"PT_EXTRA_INFO", "PT_TASK_INFO", "PT_INFO"}

\* note_sec.name.decode('ascii'), as a sequence of characters.
EXTRA_INFO == <<"E", "X", "T", "R", "A", "_", "I", "N", "F", "O">>
TASK_INFO == <<"T", "A", "S", "K", "_", "I", "N", "F", "O">>
CORE == <<"C", "O", "R", "E">>

NoteNames == {EXTRA_INFO, TASK_INFO, CORE}

\* note_sec.desc payloads, as byte sequences: empty, one word, one word and a
\* trailing byte, two words, four words (words below 2^31).
NoteDescs ==
    { <<>>,
      <<1, 0, 5, 0>>,
      <<2, 1, 0, 0, 9>>,
      <<239, 190, 173, 94, 3, 0, 0, 0>>,
      <<0, 0, 0, 0, 1, 0, 0, 0, 4, 0, 0, 0, 8, 0, 0, 0>> }

NoteSecs == [type : NoteTypes, name : NoteNames, desc : NoteDescs]

NoteLists == UNION {[1 .. k -> NoteSecs] : k \in 0 .. MaxNotes}

NoNote == [type |-> "none", name |-> <<>>, desc |-> <<>>]

NoInfo == [set |-> FALSE, regs |-> <<>>]

\* Python's "sub in text" for strings.
Contains(text, sub) ==
    \E i \in 0 .. Len(text) - Len(sub) : SubSeq(text, i + 1, i + Len(sub)) = sub

\* line 230, the test
IsExtraNote(note_sec) ==
    note_sec.type = "PT_EXTRA_INFO" /\ Contains(note_sec.name, EXTRA_INFO)

\* line 232, the test
IsTaskNote(note_sec) ==
    note_sec.type = "PT_TASK_INFO" /\ Contains(note_sec.name, TASK_INFO)

\* lines 230-231: extra_note after one note section has been looked at.
KeepFirstExtraNote(cur, note_sec) ==
    IF IsExtraNote(note_sec) /\ cur = NoNote THEN note_sec ELSE cur

NextExtraNote(cur, note_sec) ==
    IF IsExtraNote(note_sec) THEN note_sec ELSE cur

\* Int32ul: four bytes, least significant first.
Int32ul(b, k) == b[k] + 256 * b[k + 1] + 65536 * b[k + 2] + 16777216 * b[k + 3]

\* line 250: Struct('regs' / GreedyRange(Int32ul)).parse(desc).regs
ParseRegs(desc) == [w \in 1 .. (Len(desc) \div 4) |-> Int32ul(desc, 4 * (w - 1) + 1)]

\* EspTaskStatus: four 32-bit little-endian fields.
TaskStatusLen == 16

CanParseTaskStatus(desc) == Len(desc) >= TaskStatusLen

EspTaskStatus_parse(desc) ==
    [task_index |-> Int32ul(desc, 1), task_flags |-> Int32ul(desc, 5),
     task_tcb_addr |-> Int32ul(desc, 9), task_stack_start |-> Int32ul(desc, 13)]

\* ------------------------------------------------------ target resolution
\* lines 127-129: the note sections, by position, of type PT_INFO.
InfoIdx(notes) == {i \in 1 .. Len(notes) : notes[i].type = "PT_INFO"}

\* line 130: ver_bytes of the first PT_INFO note section, sec.desc[:4].
VerBytes(notes) ==
    LET first == CHOOSE i \in InfoIdx(notes) : \A j \in InfoIdx(notes) : i <= j
        desc == notes[first].desc
    IN SubSeq(desc, 1, IF Len(desc) < 4 THEN Len(desc) ELSE 4)

\* line 131: ver_bytes[3] and ver_bytes[2] exist.
VersionReadable(notes) == InfoIdx(notes) = {} \/ Len(VerBytes(notes)) = 4

\* lines 126-132: get_chip_version, for notes it does not raise on.
get_chip_version(notes) ==
    IF InfoIdx(notes) = {} THEN NoVersion
    ELSE VerBytes(notes)[4] * 256 + VerBytes(notes)[3]

\* args.chip: 'auto' or one of SUPPORTED_TARGETS (line 371)
Chips == {"auto", "esp32", "esp32s2", "esp32s3", "esp32c3"}

\* None, the four known codes, and two codes that are not known.
ChipVersions == {NoVersion, ESP32, ESP32S2, ESP32S3, ESP32C3, 1, 3}

SerialException == "SerialException"

\* inst.CHIP_NAME of the detected chip, or the exception detect_chip raises.
DetectAnswers == {"ESP32", "ESP32-S2", "ESP32-S3", "ESP32-C3", SerialException}

NoTarget == ""

\* The target get_core_dump_elf returned (lines 220, 236), args.chip and the
\* answer detection would give: a loader that knows the target, or none with
\* an explicit chip, or none with 'auto' and detection answering or failing.
CoreFileRuns ==
    { <<"esp32", "auto", SerialException>>,
      <<NoTarget, "esp32s3", SerialException>>,
      <<NoTarget, "auto", "ESP32-S2">>,
      <<NoTarget, "auto", SerialException>> }

\* line 161: CHIP_NAME.lower().replace('-', '')
LowerNoDash(name) ==
    CASE name = "ESP32" -> "esp32"
      [] name = "ESP32-S2" -> "esp32s2"
      [] name = "ESP32-S3" -> "esp32s3"
      [] name = "ESP32-C3" -> "esp32c3"

\* lines 141-152: the name a chip version maps to, NoTarget when the code
\* falls out of the "if chip_version is not None" block.
VersionTarget_NoC3(v) ==
    IF v = NoVersion THEN NoTarget
    ELSE IF v = ESP32 THEN "esp32"
    ELSE IF v = ESP32S2 THEN "esp32s2"
    ELSE IF v = ESP32S3 THEN "esp32s3"
    ELSE NoTarget

VersionTarget(v) ==
    IF v = NoVersion THEN NoTarget
    ELSE IF v = ESP32 THEN "esp32"
    ELSE IF v = ESP32S2 THEN "esp32s2"
    ELSE IF v = ESP32S3 THEN "esp32s3"
    ELSE IF v = ESP32C3 THEN "esp32c3"
    ELSE NoTarget

\* ------------------------------------------------------------------- Init
\* Line 294-295: the reconciliation begins on validated inputs (positive
\* lengths, sections pairwise disjoint, segments pairwise disjoint); the note
\* extraction and get_target are not under way.
Init ==
    /\ sections \in SectionLists
    /\ load_segments \in SegmentLists
    /\ in_segments = load_segments
    /\ merged_segs = <<>>
    /\ merged_with = <<>>
    /\ core_only = <<>>
    /\ sec_i = 1
    /\ seg_i = 1
    /\ merged = FALSE
    /\ pc = "sec"
    /\ note_secs = <<>>
    /\ note_i = 1
    /\ extra_note = NoNote
    /\ task_info = <<>>
    /\ extra_info = NoInfo
    /\ marker = 0
    /\ pcn = "idle"
    /\ chip = "auto"
    /\ chip_version = NoVersion
    /\ detect = SerialException
    /\ detect_called = FALSE
    /\ target = NoTarget
    /\ pct = "idle"

\* lines 220-227: get_core_dump_elf has returned target (None for a core file
\* given as ELF, the loader's target otherwise) and the note extraction begins.
InitNotes ==
    /\ note_secs \in NoteLists
    /\ note_i = 1
    /\ extra_note = NoNote
    /\ task_info = <<>>
    /\ extra_info = NoInfo
    /\ marker = 0
    /\ pcn = "scan"
    /\ sections = <<>>
    /\ load_segments = <<>>
    /\ in_segments = <<>>
    /\ merged_segs = <<>>
    /\ merged_with = <<>>
    /\ core_only = <<>>
    /\ sec_i = 1
    /\ seg_i = 1
    /\ merged = FALSE
    /\ pc = "idle"
    /\ \E r \in CoreFileRuns : target = r[1] /\ chip = r[2] /\ detect = r[3]
    /\ chip_version = NoVersion
    /\ detect_called = FALSE
    /\ pct = "idle"

\* line 135: get_target(chip_version) is called with args.chip set; detect is
\* the answer detection would give if asked.
InitTarget ==
    /\ chip \in Chips
    /\ chip_version \in ChipVersions
    /\ detect \in DetectAnswers
    /\ detect_called = FALSE
    /\ target = NoTarget
    /\ pct = "call"
    /\ sections = <<>>
    /\ load_segments = <<>>
    /\ in_segments = <<>>
    /\ merged_segs = <<>>
    /\ merged_with = <<>>
    /\ core_only = <<>>
    /\ sec_i = 1
    /\ seg_i = 1
    /\ merged = FALSE
    /\ pc = "idle"
    /\ note_secs = <<>>
    /\ note_i = 1
    /\ extra_note = NoNote
    /\ task_info = <<>>
    /\ extra_info = NoInfo
    /\ marker = 0
    /\ pcn = "idle"

\* ---------------------------------------------------------------- actions
\* line 296-297: the outer loop takes the next section, or ends.
BeginSection ==
    /\ pc = "sec"
    /\ IF sec_i <= Len(sections)
       THEN /\ merged' = FALSE
            /\ seg_i' = 1
            /\ pc' = "scan"
       ELSE /\ pc' = "core"
            /\ UNCHANGED <<merged, seg_i>>
    /\ UNCHANGED <<sections, load_segments, in_segments, merged_segs, merged_with,
                   core_only, sec_i>>
    /\ UNCHANGED <<noteVars, targetVars>>

\* lines 298-315: the iterator yields a segment that passes the first test.
ScanMergeA ==
    /\ pc = "scan"
    /\ seg_i <= Len(load_segments)
    /\ LET sec == sections[sec_i]
           seg == load_segments[seg_i]
       IN /\ SecStartsInSeg(sec, seg)
          /\ merged_segs' = Append(merged_segs,
                 [name |-> sec.name, addr |-> AddrA(sec, seg), len |-> LenA(sec, seg),
                  attr |-> sec.attr, merged |-> TRUE])
          /\ merged_with' = Append(merged_with, seg)
          /\ load_segments' = RemoveFirst(load_segments, seg)
    /\ merged' = TRUE
    /\ seg_i' = seg_i + 1
    /\ UNCHANGED <<sections, in_segments, core_only, sec_i, pc>>
    /\ UNCHANGED <<noteVars, targetVars>>

\* lines 316-332: the iterator yields a segment that passes only the second test.
ScanMergeB ==
    /\ pc = "scan"
    /\ seg_i <= Len(load_segments)
    /\ LET sec == sections[sec_i]
           seg == load_segments[seg_i]
       IN /\ ~SecStartsInSeg(sec, seg)
          /\ SegStartsInSec(sec, seg)
          /\ merged_segs' = Append(merged_segs,
                 [name |-> sec.name, addr |-> AddrB(sec, seg), len |-> LenB(sec, seg),
                  attr |-> sec.attr, merged |-> TRUE])
          /\ merged_with' = Append(merged_with, seg)
          /\ load_segments' = RemoveFirst(load_segments, seg)
    /\ merged' = TRUE
    /\ seg_i' = seg_i + 1
    /\ UNCHANGED <<sections, in_segments, core_only, sec_i, pc>>
    /\ UNCHANGED <<noteVars, targetVars>>

\* lines 298-332: the iterator yields a segment that passes neither test.
ScanSkip ==
    /\ pc = "scan"
    /\ seg_i <= Len(load_segments)
    /\ LET sec == sections[sec_i]
           seg == load_segments[seg_i]
       IN /\ ~SecStartsInSeg(sec, seg)
          /\ ~SegStartsInSec(sec, seg)
    /\ seg_i' = seg_i + 1
    /\ UNCHANGED <<sections, load_segments, in_segments, merged_segs, merged_with,
                   core_only, sec_i, merged, pc>>
    /\ UNCHANGED <<noteVars, targetVars>>

\* lines 334-335: the iterator is exhausted; an unmatched section is emitted as is.
EndSection ==
    /\ pc = "scan"
    /\ seg_i > Len(load_segments)
    /\ LET sec == sections[sec_i]
       IN IF ~merged
          THEN /\ merged_segs' = Append(merged_segs,
                      [name |-> sec.name, addr |-> sec.addr, len |-> sec.len,
                       attr |-> sec.attr, merged |-> FALSE])
               /\ merged_with' = Append(merged_with, NoSeg)
          ELSE UNCHANGED <<merged_segs, merged_with>>
    /\ sec_i' = sec_i + 1
    /\ pc' = "sec"
    /\ UNCHANGED <<sections, load_segments, in_segments, core_only, seg_i, merged>>
    /\ UNCHANGED <<noteVars, targetVars>>

\* lines 340-346: every segment still in the pool is printed as core-only.
PrintCoreOnly ==
    /\ pc = "core"
    /\ core_only' = [i \in 1 .. Len(load_segments) |-> CoreLine(load_segments[i])]
    /\ pc' = "done"
    /\ UNCHANGED <<sections, load_segments, in_segments, merged_segs, merged_with,
                   sec_i, seg_i, merged>>
    /\ UNCHANGED <<noteVars, targetVars>>

Next ==
    \/ BeginSection
    \/ ScanMergeA
    \/ ScanMergeB
    \/ ScanSkip
    \/ EndSection
    \/ PrintCoreOnly

Spec == Init /\ [][Next]_vars

\* ------------------------------------------------- note extraction steps
\* lines 228-234: one pass of the loop body over the next note section.
ScanNote ==
    /\ pcn = "scan"
    /\ note_i <= Len(note_secs)
    /\ LET note_sec == note_secs[note_i]
       IN /\ extra_note' = NextExtraNote(extra_note, note_sec)
          /\ IF IsTaskNote(note_sec)
             THEN IF CanParseTaskStatus(note_sec.desc)
                  THEN /\ task_info' = Append(task_info, EspTaskStatus_parse(note_sec.desc))
                       /\ pcn' = "scan"
                  ELSE /\ task_info' = task_info
                       /\ pcn' = "parse_error"
             ELSE /\ task_info' = task_info
                  /\ pcn' = "scan"
    /\ note_i' = note_i + 1
    /\ UNCHANGED <<note_secs, extra_info, marker>>
    /\ UNCHANGED <<reconVars, targetVars>>

\* lines 236-238: the scan is over and target is None: get_chip_version reads
\* the notes (IndexError at line 131 on a PT_INFO payload shorter than four
\* bytes) and get_target is called with its result.
ReadChipVersion ==
    /\ pcn = "scan"
    /\ note_i > Len(note_secs)
    /\ target = NoTarget
    /\ pct = "idle"
    /\ IF VersionReadable(note_secs)
       THEN /\ chip_version' = get_chip_version(note_secs)
            /\ pct' = "call"
            /\ pcn' = "scan"
       ELSE /\ pcn' = "version_error"
            /\ UNCHANGED <<chip_version, pct>>
    /\ UNCHANGED <<note_secs, note_i, extra_note, task_info, extra_info, marker>>
    /\ UNCHANGED <<chip, detect, detect_called, target>>
    /\ UNCHANGED reconVars

\* lines 236-251: the target is known (from the loader, or get_target has
\* returned; gdb is started for it, lines 242-246) and the register snapshot
\* is decoded from extra_note, if there is one; extra_info[0] raises
\* IndexError when the payload holds no whole word.
DecodeExtraInfo ==
    /\ pcn = "scan"
    /\ note_i > Len(note_secs)
    /\ target # NoTarget
    /\ IF extra_note # NoNote
       THEN /\ extra_info' = [set |-> TRUE, regs |-> ParseRegs(extra_note.desc)]
            /\ IF Len(ParseRegs(extra_note.desc)) > 0
               THEN /\ marker' = ParseRegs(extra_note.desc)[1]
                    /\ pcn' = "done"
               ELSE /\ marker' = marker
                    /\ pcn' = "index_error"
       ELSE /\ extra_info' = NoInfo
            /\ marker' = marker
            /\ pcn' = "done"
    /\ UNCHANGED <<note_secs, note_i, extra_note, task_info>>
    /\ UNCHANGED <<reconVars, targetVars>>

\* ----------------------------------------------------- get_target steps
\* lines 136-139: an explicit target is returned as given.
ReturnExplicit ==
    /\ pct = "call"
    /\ chip # "auto"
    /\ target' = chip
    /\ pct' = "returned"
    /\ UNCHANGED <<chip, chip_version, detect, detect_called>>
    /\ UNCHANGED <<reconVars, noteVars>>

\* lines 141-152: a known chip version is mapped to its name.
ReturnByVersion ==
    /\ pct = "call"
    /\ chip = "auto"
    /\ VersionTarget(chip_version) # NoTarget
    /\ target' = VersionTarget(chip_version)
    /\ pct' = "returned"
    /\ UNCHANGED <<chip, chip_version, detect, detect_called>>
    /\ UNCHANGED <<reconVars, noteVars>>

\* lines 154-155: otherwise detect_chip is called.
CallDetect ==
    /\ pct = "call"
    /\ chip = "auto"
    /\ VersionTarget(chip_version) = NoTarget
    /\ detect_called' = TRUE
    /\ pct' = "detect"
    /\ UNCHANGED <<chip, chip_version, detect, target>>
    /\ UNCHANGED <<reconVars, noteVars>>

\* lines 160-163: detection answered.
DetectReturns ==
    /\ pct = "detect"
    /\ detect # SerialException
    /\ target' = LowerNoDash(detect)
    /\ pct' = "returned"
    /\ UNCHANGED <<chip, chip_version, detect, detect_called>>
    /\ UNCHANGED <<reconVars, noteVars>>

\* lines 156-159: detection failed; the message is printed and the process exits.
DetectFails ==
    /\ pct = "detect"
    /\ detect = SerialException
    /\ pct' = "exit"
    /\ UNCHANGED <<chip, chip_version, detect, detect_called, target>>
    /\ UNCHANGED <<reconVars, noteVars>>

NextTarget ==
    \/ ReturnExplicit
    \/ ReturnByVersion
    \/ CallDetect
    \/ DetectReturns
    \/ DetectFails

SpecTarget == InitTarget /\ [][NextTarget]_vars

\* lines 226-256 of info_corefile, get_chip_version and get_target included.
NextNotes ==
    \/ ScanNote
    \/ ReadChipVersion
    \/ ReturnExplicit
    \/ ReturnByVersion
    \/ CallDetect
    \/ DetectReturns
    \/ DetectFails
    \/ DecodeExtraInfo

SpecNotes == InitNotes /\ [][NextNotes]_vars

\* =================================================================== claims
\* ------------------------------------------------------------- vocabulary
\* The section a merged_segs entry was emitted for (section names are unique).
SecByName(n) == sections[CHOOSE i \in 1 .. Len(sections) : sections[i].name = n]

MergedIdx == {k \in 1 .. Len(merged_segs) : merged_segs[k].merged}

\* The containment test of the loop, either branch.
Matches(sec, seg) == SecStartsInSeg(sec, seg) \/ SegStartsInSec(sec, seg)

RECURSIVE SumLen(_)
SumLen(q) == IF q = <<>> THEN 0 ELSE Head(q).len + SumLen(Tail(q))

SetMin(S) == CHOOSE x \in S : \A y \in S : x <= y

SetMax(S) == CHOOSE x \in S : \A y \in S : x >= y

\* No section shares a byte with any segment.
NoSharedByte ==
    \A i \in 1 .. Len(sections), j \in 1 .. Len(in_segments) :
        Disjoint(sections[i], in_segments[j])

\* No section ends where a segment starts, and no segment ends where a section starts.
NoTouching ==
    \A i \in 1 .. Len(sections), j \in 1 .. Len(in_segments) :
        /\ End(sections[i]) # in_segments[j].addr
        /\ End(in_segments[j]) # sections[i].addr

\* One unmerged region per section, no segment consumed, one core-only line
\* per segment named after its executable flag, and all input bytes emitted.
NothingMerged ==
    /\ Len(merged_segs) = Len(sections)
    /\ \A i \in 1 .. Len(sections) :
          merged_segs[i] = [name |-> sections[i].name, addr |-> sections[i].addr,
                            len |-> sections[i].len, attr |-> sections[i].attr,
                            merged |-> FALSE]
    /\ load_segments = in_segments
    /\ Len(core_only) = Len(in_segments)
    /\ \A j \in 1 .. Len(in_segments) :
          /\ core_only[j].addr = in_segments[j].addr
          /\ core_only[j].len = in_segments[j].len
          /\ core_only[j].name =
                IF in_segments[j].flags \in {1, 3, 5, 7} THEN "rom.text" ELSE "tasks.data"
    /\ SumLen(merged_segs) + SumLen(core_only) = SumLen(sections) + SumLen(in_segments)

\* ---------------------------------------------------------------------- C1
\* C1: after the reconciliation of pairwise disjoint sections and pairwise
\* disjoint segments, the byte ranges of all emitted regions (section regions,
\* merged or not, and core-only regions) are pairwise disjoint.
C1_RegionsNeverOverlap ==
    (pc = "done" /\ PairwiseDisjoint(sections) /\ PairwiseDisjoint(in_segments)) =>
        /\ PairwiseDisjoint(merged_segs)
        /\ PairwiseDisjoint(core_only)
        /\ \A i \in 1 .. Len(merged_segs), j \in 1 .. Len(core_only) :
              Disjoint(merged_segs[i], core_only[j])

\* ---------------------------------------------------------------------- C2
\* C2: every merged region covers exactly the union of the bytes of its
\* section and of the segment it was merged with, in either branch.
C2_MergedIsUnion ==
    \A k \in MergedIdx :
        Bytes(merged_segs[k]) =
            Bytes(SecByName(merged_segs[k].name)) \cup Bytes(merged_with[k])

\* A merge of a segment that starts before its section and ends inside it.
C2_Witness ==
    \E k \in MergedIdx :
        LET S == SecByName(merged_segs[k].name)
            G == merged_with[k]
        IN G.addr < S.addr /\ S.addr < End(G) /\ End(G) < End(S)

\* ---------------------------------------------------------------------- C3
\* C3 as stated: when no section shares a byte with any segment (ranges that
\* only touch included), nothing is merged: one unmerged region per section,
\* no segment consumed, one core-only region per segment named rom.text or
\* tasks.data by its executable flag, emitted length = sum of input lengths.
C3_DisjointNothingMerged ==
    (pc = "done" /\ NoSharedByte) => NothingMerged

\* C3 amended: the same, when in addition no section range touches a segment
\* range end-to-start.
C3_ApartNothingMerged ==
    (pc = "done" /\ NoSharedByte /\ NoTouching) => NothingMerged

\* A finished run over a section and a segment that neither overlap nor touch.
C3_Witness ==
    /\ pc = "done"
    /\ NoSharedByte
    /\ NoTouching
    /\ Len(sections) >= 1
    /\ Len(in_segments) >= 1
    /\ Len(core_only) >= 1

\* ---------------------------------------------------------------------- C4
\* C4: every section gets exactly one region in merged_segs (merged or
\* unmerged), so at most one segment is consumed per section, however many
\* segments of the pool match it.
C4_OneRegionPerSection ==
    pc = "done" =>
        \A i \in 1 .. Len(sections) :
            Cardinality({k \in 1 .. Len(merged_segs) :
                            merged_segs[k].name = sections[i].name}) = 1

\* ---------------------------------------------------------------------- C5
\* C5 as stated: when the merged segment G starts inside its section S
\* (S.start <= G.start <= S.end), the merged region starts at G.start and ends
\* at S's end if G ends at or before it, at G's end otherwise.
C5_StartsAtSegment ==
    \A k \in MergedIdx :
        LET S == SecByName(merged_segs[k].name)
            G == merged_with[k]
        IN (S.addr <= G.addr /\ G.addr <= End(S)) =>
              /\ merged_segs[k].addr = G.addr
              /\ End(G) <= End(S) => End(merged_segs[k]) = End(S)
              /\ End(G) > End(S) => End(merged_segs[k]) = End(G)

\* C5 amended: in that case the merged region starts at S.start; it ends at
\* S's end if G ends at or before it, and at G's end otherwise.
C5_StartsAtSection ==
    \A k \in MergedIdx :
        LET S == SecByName(merged_segs[k].name)
            G == merged_with[k]
        IN (S.addr <= G.addr /\ G.addr <= End(S)) =>
              /\ merged_segs[k].addr = S.addr
              /\ End(G) <= End(S) => End(merged_segs[k]) = End(S)
              /\ End(G) > End(S) => End(merged_segs[k]) = End(G)

\* A merge of a segment that starts strictly inside its section and ends past it.
C5_Witness ==
    \E k \in MergedIdx :
        LET S == SecByName(merged_segs[k].name)
            G == merged_with[k]
        IN S.addr < G.addr /\ G.addr < End(S) /\ End(G) > End(S)

\* ---------------------------------------------------------------------- C9
\* C9: in every state no segment has been consumed by two merges, a consumed
\* segment is not in the pool, and every input segment is either consumed or
\* in the pool; at the end every input segment is the segment of exactly one
\* merged region or exactly one core-only line, never both, so merged regions
\* plus core-only lines number the input segments.
C9_SegmentConservation ==
    /\ \A i, j \in MergedIdx : i # j => merged_with[i] # merged_with[j]
    /\ \A k \in MergedIdx :
          \A j \in 1 .. Len(load_segments) : load_segments[j] # merged_with[k]
    /\ \A g \in 1 .. Len(in_segments) :
          Cardinality({k \in MergedIdx : merged_with[k] = in_segments[g]})
            + Cardinality({j \in 1 .. Len(load_segments) :
                             load_segments[j] = in_segments[g]}) = 1
    /\ pc = "done" =>
          /\ \A g \in 1 .. Len(in_segments) :
                Cardinality({k \in MergedIdx : merged_with[k] = in_segments[g]})
                  + Cardinality({j \in 1 .. Len(core_only) :
                                   /\ core_only[j].addr = in_segments[g].addr
                                   /\ core_only[j].len = in_segments[g].len}) = 1
          /\ Cardinality(MergedIdx) + Len(core_only) = Len(in_segments)

\* A finished run in which one segment was merged and another was left core-only.
C9_Witness ==
    /\ pc = "done"
    /\ Len(in_segments) >= 2
    /\ MergedIdx # {}
    /\ Len(core_only) >= 1

\* --------------------------------------------------------------------- C10
\* The sections, by position, that the input segment g matches.
MatchingSecs(g) == {i \in 1 .. Len(sections) : Matches(sections[i], in_segments[g])}

\* g is the segment of exactly one merged region, the one of section i.
MergedOnceInto(g, i) ==
    /\ Cardinality({k \in MergedIdx : merged_with[k] = in_segments[g]}) = 1
    /\ \E k \in MergedIdx :
          /\ merged_with[k] = in_segments[g]
          /\ merged_segs[k].name = sections[i].name

\* C10 as stated: a segment that matches two or more sections is merged into
\* the first of them in section order, once, whatever the pool order and
\* whatever else those sections match.
C10_FirstSectionWins ==
    pc = "done" =>
        \A g \in 1 .. Len(in_segments) :
            Cardinality(MatchingSecs(g)) >= 2 =>
                MergedOnceInto(g, SetMin(MatchingSecs(g)))

\* C10 amended: the same, provided no segment that precedes g in the segment
\* list also matches that first section.
C10_FirstSectionWinsUnlessPreceded ==
    pc = "done" =>
        \A g \in 1 .. Len(in_segments) :
            (/\ Cardinality(MatchingSecs(g)) >= 2
             /\ \A h \in 1 .. (g - 1) :
                   ~Matches(sections[SetMin(MatchingSecs(g))], in_segments[h]))
            => MergedOnceInto(g, SetMin(MatchingSecs(g)))

\* A finished run with a segment that matches two sections, is not the first
\* segment of the list, and was merged into the first of the two.
C10_Witness ==
    /\ pc = "done"
    /\ \E g \in 2 .. Len(in_segments) :
          /\ Cardinality(MatchingSecs(g)) >= 2
          /\ \A h \in 1 .. (g - 1) :
                ~Matches(sections[SetMin(MatchingSecs(g))], in_segments[h])
          /\ MergedOnceInto(g, SetMin(MatchingSecs(g)))

\* ---------------------------------------------------------------------- C6
\* The note sections, by position, that pass the test of line 230.
ExtraIdx == {i \in 1 .. Len(note_secs) : IsExtraNote(note_secs[i])}

\* The outcome of the extraction when the snapshot comes from note section i.
SnapshotFrom(i) ==
    /\ extra_info.set
    /\ extra_info.regs = ParseRegs(note_secs[i].desc)
    /\ pcn = "done" => marker = ParseRegs(note_secs[i].desc)[1]

\* C6 as stated: the register snapshot and its marker are decoded from the
\* first matching EXTRA_INFO section; with no matching section the snapshot is
\* absent and no error is raised.
C6_FirstExtraNote ==
    (pcn \in {"done", "index_error"}) =>
        IF ExtraIdx = {}
        THEN extra_info = NoInfo /\ pcn = "done"
        ELSE SnapshotFrom(SetMin(ExtraIdx))

\* C6 amended: the register snapshot and its marker are decoded from the last
\* matching EXTRA_INFO section; with no matching section the snapshot is
\* absent and no error is raised.
C6_LastExtraNote ==
    (pcn \in {"done", "index_error"}) =>
        IF ExtraIdx = {}
        THEN extra_info = NoInfo /\ pcn = "done"
        ELSE SnapshotFrom(SetMax(ExtraIdx))

\* Two matching sections with different payloads, decoded without error.
C6_Witness ==
    /\ pcn = "done"
    /\ Cardinality(ExtraIdx) >= 2
    /\ ParseRegs(note_secs[SetMin(ExtraIdx)].desc) # ParseRegs(note_secs[SetMax(ExtraIdx)].desc)
    /\ extra_info.set

\* ---------------------------------------------------------------------- C7
KnownVersions == {ESP32, ESP32S2, ESP32S3, ESP32C3}

\* C7: an explicit target is returned as given whatever the chip version; with
\* 'auto' a known chip version returns its name; detection is called only with
\* 'auto' and a chip version that is absent or unknown, and in that case it is
\* always called (an unknown code does not fail).
C7_TargetPriority ==
    /\ detect_called => (chip = "auto" /\ chip_version \notin KnownVersions)
    /\ (pct = "returned" /\ chip # "auto") => target = chip
    /\ (pct = "returned" /\ chip = "auto" /\ chip_version = ESP32) => target = "esp32"
    /\ (pct = "returned" /\ chip = "auto" /\ chip_version = ESP32S2) => target = "esp32s2"
    /\ (pct = "returned" /\ chip = "auto" /\ chip_version = ESP32S3) => target = "esp32s3"
    /\ (pct = "returned" /\ chip = "auto" /\ chip_version = ESP32C3) => target = "esp32c3"
    /\ (pct \in {"returned", "exit"} /\ chip = "auto" /\ chip_version \notin KnownVersions)
          => detect_called
    /\ pct = "exit" => (detect_called /\ detect = SerialException)

\* Explicit esp32s3 with a chip version of ESP32: esp32s3 is returned, no detection.
C7_Witness ==
    /\ pct = "returned"
    /\ chip = "esp32s3"
    /\ chip_version = ESP32
    /\ target = "esp32s3"
    /\ ~detect_called

====
